---- MODULE Spec2Model ----
(***************************************************************************)
(* Shape detection and tracing pipeline of dungeondraft-generator.         *)
(*                                                                         *)
(* Three entry points are modelled:                                        *)
(*   "find_shapes"  - images.rs find_shapes  (analysis, returns Vec<Shape>)*)
(*   "trace_shapes" - images.rs trace_shapes (analysis + annotated image)  *)
(*   "main"         - main.rs `shapes` subcommand, which calls the         *)
(*                    find_shapes defined in main.rs                       *)
(*                                                                         *)
(* A contour is a sequence of integer points <<x, y>>.  An image is a      *)
(* sequence of pixel classes: entry 1 is the class of the pixels that lie  *)
(* on no contour stroke, entry k + 1 the class of the pixels that lie on   *)
(* the stroke of contour k only.  Areas are kept doubled (the shoelace sum)*)
(* so that half-integer areas stay integers.                               *)
(***************************************************************************)
EXTENDS Integers, Sequences, FiniteSets, TLC

VARIABLES op, image_path, input, fs, pc, image, image_with_contours,
          contours, idx, num_vertices, shapes, contour_count, log,
          ret, ret_path, failed, exit

vars == <<op, image_path, input, fs, pc, image, image_with_contours,
          contours, idx, num_vertices, shapes, contour_count, log,
          ret, ret_path, failed, exit>>

\* ------------------------------------------------------------------ bounds
MaxContours == 2
MaxNameLen == 2

\* --------------------------------------------------------------- constants
MinArea == 100
EpsInv == 25
init_iters == 3
AllContours == -1

Green == <<0, 255, 0>>
Blue == <<255, 0, 0>>
Black == <<0, 0, 0>>
White == <<255, 255, 255>>

Abs(n) == IF n < 0 THEN -n ELSE n

\* ------------------------------------------------------------ path strings
\* A string is a sequence of one-character strings.
ShapesPng == <<"s", "h", "a", "p", "e", "s", ".", "p", "n", "g">>
DotDot == <<".", ".">>
MapPng == <<"m", "a", "p", ".", "p", "n", "g">>
ScanV2Jpg == <<"s", "c", "a", "n", ".", "v", "2", ".", "j", "p", "g">>

Dots(name) == {i \in 1..Len(name) : name[i] = "."}
Max(S) == CHOOSE m \in S : \A n \in S : n <= m
Min(S) == CHOOSE m \in S : \A n \in S : m <= n

\* Path::file_name: None when the path ends in "..".
HasFileName(path) == path.name # DotDot /\ path.name # <<>>

\* std::path rsplit_file_at_dot: (before, after) around the last dot
RSplitFileAtDot(file) ==
    IF file = DotDot
    THEN [hasBefore |-> TRUE, before |-> file, hasAfter |-> FALSE, after |-> <<>>]
    ELSE IF Dots(file) = {}
    THEN [hasBefore |-> FALSE, before |-> <<>>, hasAfter |-> TRUE, after |-> file]
    ELSE LET d == Max(Dots(file))
             b == SubSeq(file, 1, d - 1)
             a == SubSeq(file, d + 1, Len(file))
         IN IF b = <<>>
            THEN [hasBefore |-> TRUE, before |-> file, hasAfter |-> FALSE, after |-> <<>>]
            ELSE [hasBefore |-> TRUE, before |-> b, hasAfter |-> TRUE, after |-> a]

\* faulty variant: the stem ends at the first dot (file_prefix instead of file_stem)
FilePrefix(file) ==
    IF file = DotDot \/ Dots(file) = {} \/ Min(Dots(file)) = 1
    THEN file
    ELSE SubSeq(file, 1, Min(Dots(file)) - 1)

\* Path::file_stem: before.or(after)
FileStem(file) ==
    LET s == RSplitFileAtDot(file)
    IN IF s.hasBefore THEN s.before ELSE s.after

\* faulty variant: the extension is appended without truncating to the stem
SetExtensionAppend(path, extension) ==
    IF ~HasFileName(path)
    THEN path
    ELSE [path EXCEPT !.name = path.name \o <<".">> \o extension]

\* PathBuf::set_extension: truncate right after the stem, then push "." ext
SetExtension(path, extension) ==
    IF ~HasFileName(path)
    THEN path
    ELSE [path EXCEPT !.name =
            FileStem(path.name) \o
            (IF extension # <<>> THEN <<".">> \o extension ELSE <<>>)]

\* ---------------------------------------------------------------- geometry
At(c, i) == c[i + 1]
Dist2(p, q) == (p[1] - q[1]) * (p[1] - q[1]) + (p[2] - q[2]) * (p[2] - q[2])

\* imgproc::contour_area(contour, oriented = false), doubled
RECURSIVE Shoelace(_, _)
Shoelace(c, i) ==
    IF i > Len(c) THEN 0
    ELSE LET p == c[i]
             q == c[IF i = Len(c) THEN 1 ELSE i + 1]
         IN (p[1] * q[2] - q[1] * p[2]) + Shoelace(c, i + 1)

ContourArea2(c) == IF Len(c) = 0 THEN 0 ELSE Abs(Shoelace(c, 1))

\* length of one edge; the contours used have integer edge lengths
EdgeLen(p, q) ==
    IF p[2] = q[2] THEN Abs(p[1] - q[1])
    ELSE IF p[1] = q[1] THEN Abs(p[2] - q[2])
    ELSE CHOOSE r \in 1..(Abs(p[1] - q[1]) + Abs(p[2] - q[2])) : r * r = Dist2(p, q)

\* imgproc::arc_length(contour, closed = true)
RECURSIVE ArcLengthFrom(_, _)
ArcLengthFrom(c, i) ==
    IF i > Len(c) THEN 0
    ELSE EdgeLen(c[i], c[IF i = Len(c) THEN 1 ELSE i + 1]) + ArcLengthFrom(c, i + 1)

ArcLength(c) == IF Len(c) < 2 THEN 0 ELSE ArcLengthFrom(c, 1)

\* imgproc::bounding_rect(contour)
BoundingRect(c) ==
    LET xs == {c[i][1] : i \in 1..Len(c)}
        ys == {c[i][2] : i \in 1..Len(c)}
    IN [x |-> Min(xs), y |-> Min(ys),
        width |-> Max(xs) - Min(xs) + 1, height |-> Max(ys) - Min(ys) + 1]

\* faulty variant: `area >= 100.0`
RetainedGe(area2) == area2 >= 2 * MinArea

\* faulty variant: threshold lost a digit, `area > 10.0`
RetainedLow(area2) == 10 * area2 > 2 * MinArea

\* `if area > 100.0`
Retained(area2) == area2 > 2 * MinArea

\* ------------------------------------------- approx_poly_dp (closed curve)
\* `max_dist <= eps * len2` with eps = (0.04 * perimeter)^2 = (perimeter / 25)^2,
\* kept in integers
LeEps(dist2, len2, per) == dist2 * (EpsInv * EpsInv) <= (per * per) * len2

\* one pass of "find approximately two farthest points": scan j = 1..count-1
RECURSIVE FarScan(_, _, _, _, _)
FarScan(c, s, j, maxd, best) ==
    IF j >= Len(c) THEN [max_dist |-> maxd, start |-> best]
    ELSE LET d == Dist2(At(c, (s + j) % Len(c)), At(c, s))
         IN IF d > maxd THEN FarScan(c, s, j + 1, d, j)
                        ELSE FarScan(c, s, j + 1, maxd, best)

\* the init_iters passes; pos is the start index of the last pass
RECURSIVE FarthestPair(_, _, _, _)
FarthestPair(c, i, pos, rstart) ==
    LET s == (pos + rstart) % Len(c)
        r == FarScan(c, s, 1, 0, rstart)
    IN IF i + 1 >= init_iters
       THEN [pos |-> s, start |-> r.start, max_dist |-> r.max_dist]
       ELSE FarthestPair(c, i + 1, s, r.start)

\* scan of one slice: farthest point from the chord start..end
RECURSIVE SliceScan(_, _, _, _, _, _)
SliceScan(c, spt, ept, pos, last, acc) ==
    IF pos = last THEN acc
    ELSE LET pt == At(c, pos)
             dx == ept[1] - spt[1]
             dy == ept[2] - spt[2]
             d == Abs((pt[2] - spt[2]) * dx - (pt[1] - spt[1]) * dy)
             nxt == (pos + 1) % Len(c)
         IN IF d > acc.max_dist
            THEN SliceScan(c, spt, ept, nxt, last, [max_dist |-> d, start |-> pos])
            ELSE SliceScan(c, spt, ept, nxt, last, acc)

\* "run recursive process": pop a slice, write its start or split it
RECURSIVE RunStack(_, _, _, _)
RunStack(c, stack, dst, per) ==
    IF stack = <<>> THEN dst
    ELSE LET slice == stack[Len(stack)]
             rest == SubSeq(stack, 1, Len(stack) - 1)
             spt == At(c, slice.start)
             ept == At(c, slice.end)
             pos == (slice.start + 1) % Len(c)
             r == SliceScan(c, spt, ept, pos, slice.end,
                            [max_dist |-> 0, start |-> slice.start])
             le_eps == \/ pos = slice.end
                       \/ LeEps(r.max_dist * r.max_dist, Dist2(spt, ept), per)
         IN IF le_eps
            THEN RunStack(c, rest, Append(dst, spt), per)
            ELSE RunStack(c,
                          rest \o <<[start |-> r.start, end |-> slice.end],
                                    [start |-> slice.start, end |-> r.start]>>,
                          dst, per)

\* stages 1-3 of approxPolyDP_: the points written before the clean-up
DouglasPeucker(c, per) ==
    LET f == FarthestPair(c, 0, 0, 0)
        far == (f.start + f.pos) % Len(c)
    IN IF LeEps(f.max_dist, 1, per)
       THEN <<At(c, f.pos)>>
       ELSE RunStack(c, <<[start |-> far, end |-> f.pos],
                          [start |-> f.pos, end |-> far]>>, <<>>, per)

\* stage 4: remove extra points on [almost] straight lines, never below 2
RECURSIVE CleanUp(_, _, _)
CleanUp(st, count, per) ==
    IF ~(st.i < count /\ st.new_count > 2) THEN st.new_count
    ELSE LET end_pt == At(st.dst, st.pos)
             pos1 == (st.pos + 1) % count
             dx == end_pt[1] - st.start_pt[1]
             dy == end_pt[2] - st.start_pt[2]
             dist == Abs((st.pt[1] - st.start_pt[1]) * dy - (st.pt[2] - st.start_pt[2]) * dx)
             sip == (st.pt[1] - st.start_pt[1]) * (end_pt[1] - st.pt[1])
                    + (st.pt[2] - st.start_pt[2]) * (end_pt[2] - st.pt[2])
             wpos1 == (st.wpos + 1) % count
         IN IF /\ LeEps(2 * dist * dist, dx * dx + dy * dy, per)
               /\ dx # 0 /\ dy # 0 /\ sip >= 0
            THEN CleanUp([dst |-> [st.dst EXCEPT ![st.wpos + 1] = end_pt],
                          i |-> st.i + 2, pos |-> (pos1 + 1) % count, wpos |-> wpos1,
                          start_pt |-> end_pt, pt |-> At(st.dst, pos1),
                          new_count |-> st.new_count - 1], count, per)
            ELSE CleanUp([dst |-> [st.dst EXCEPT ![st.wpos + 1] = st.pt],
                          i |-> st.i + 1, pos |-> pos1, wpos |-> wpos1,
                          start_pt |-> st.pt, pt |-> end_pt,
                          new_count |-> st.new_count], count, per)

\* imgproc::approx_poly_dp(contour, approx, epsilon, closed = true); approx.total()
ApproxPolyDP(c, per) ==
    IF Len(c) = 0 THEN 0
    ELSE LET dst == DouglasPeucker(c, per)
             count == Len(dst)
         IN CleanUp([dst |-> dst, i |-> 0, pos |-> 1 % count, wpos |-> 0,
                     start_pt |-> At(dst, count - 1), pt |-> At(dst, 0),
                     new_count |-> count], count, per)

\* ------------------------------------------------------------- draw_contours
\* imgproc::draw_contours(image, contours, contour_idx, color, ...):
\* a negative contour_idx draws every contour of the vector
DrawContours(img, cs, contour_idx, color) ==
    [k \in 1..Len(img) |->
        IF k >= 2 /\ k - 1 <= Len(cs) /\ (contour_idx < 0 \/ contour_idx = k - 2)
        THEN color ELSE img[k]]

\* ---------------------------------------------------------------- inputs
Sq5 == <<<<0, 0>>, <<0, 5>>, <<5, 5>>, <<5, 0>>>>
Sq10 == <<<<2, 3>>, <<2, 13>>, <<12, 13>>, <<12, 3>>>>
Thin101 == <<<<0, 0>>, <<0, 1>>, <<101, 1>>, <<101, 0>>>>
Sq20 == <<<<30, 40>>, <<30, 60>>, <<50, 60>>, <<50, 40>>>>
Tri == <<<<7, 9>>, <<7, 27>>, <<31, 9>>>>
LShape == <<<<0, 0>>, <<0, 20>>, <<10, 20>>, <<10, 10>>, <<20, 10>>, <<20, 0>>>>

ContourSet == {Sq5, Sq10, Thin101, Sq20, Tri, LShape}

RECURSIVE SeqsUpTo(_, _)
SeqsUpTo(S, n) ==
    IF n = 0 THEN {<<>>}
    ELSE LET prev == SeqsUpTo(S, n - 1)
         IN prev \cup {Append(q, x) : q \in {p \in prev : Len(p) = n - 1}, x \in S}

ContourSeqs == SeqsUpTo(ContourSet, MaxContours)

Pixels(cs, bg) == [k \in 1..(Len(cs) + 1) |-> bg]

Inputs == {[pixels |-> Pixels(cs, bg), contours |-> cs] :
              cs \in ContourSeqs, bg \in {Black, White}}

Alphabet == {"a", "."}
Suffixes == {<<>>, <<".", "p", "n", "g">>, <<".">> \o ShapesPng}
Names == ({st \o x : st \in SeqsUpTo(Alphabet, MaxNameLen), x \in Suffixes}
            \cup {MapPng, ScanV2Jpg}) \ {<<>>, <<".">>}
Dirs == {"", "maps"}
AllPaths == {[dir |-> d, name |-> n] : d \in Dirs, n \in Names}
FewPaths == {[dir |-> "", name |-> MapPng], [dir |-> "maps", name |-> ScanV2Jpg]}
FewInputs == {[pixels |-> Pixels(cs, Black), contours |-> cs] : cs \in {<<>>, <<Sq5, Sq20>>}}

Ops == {"find_shapes", "trace_shapes", "main"}
NoPath == [dir |-> "", name |-> <<>>]
EmptyMat == <<>>

\* ------------------------------------------------------------ state machine
\* the state when the operation is entered with image_path naming a file
\* whose decoded pixels are input.pixels
Start(o, p, i) ==
    /\ op = o /\ image_path = p /\ input = i
    /\ fs = {[path |-> p, data |-> i.pixels]}
    /\ pc = "start"
    /\ image = EmptyMat /\ image_with_contours = EmptyMat
    /\ contours = <<>> /\ idx = 1 /\ num_vertices = 0
    /\ shapes = <<>> /\ contour_count = 0
    /\ log = <<>>
    /\ ret = "none" /\ ret_path = NoPath /\ failed = "none" /\ exit = "none"

Init == \E o \in Ops, p \in FewPaths, i \in Inputs : Start(o, p, i)

InitPath == \E o \in Ops, p \in AllPaths, i \in FewInputs : Start(o, p, i)

\* the `?` operator on an Err: the function returns the error at once
Fail(stage) ==
    /\ pc' = "returned"
    /\ ret' = "Err"
    /\ failed' = stage

\* which entry points carry the set_extension / imwrite tail
WritesAll(o) == TRUE

Writes(o) == o \in {"trace_shapes", "main"}

\* faulty variant: the loop is left after the first contour
LoopDoneEarly == idx > Len(contours) \/ idx > 1

\* `for contour in contours.iter()` is exhausted
LoopDone == idx > Len(contours)

\* imread(image_path, IMREAD_COLOR)?
Imread ==
    /\ pc = "start"
    /\ log' = Append(log, "load")
    /\ \E ok \in BOOLEAN :
         IF ok /\ HasFileName(image_path)
         THEN /\ image' = input.pixels
              /\ pc' = "loaded"
              /\ UNCHANGED <<ret, failed>>
         ELSE /\ Fail("load")
              /\ UNCHANGED image
    /\ UNCHANGED <<op, image_path, input, fs, image_with_contours, contours, idx,
                   num_vertices, shapes, contour_count, ret_path, exit>>

\* imgproc::cvt_color(&image, &mut gray_image, COLOR_BGR2GRAY, 0)?
CvtColor ==
    /\ pc = "loaded"
    /\ log' = Append(log, "grayscale")
    /\ \E ok \in BOOLEAN :
         IF ok THEN pc' = "gray" /\ UNCHANGED <<ret, failed>>
               ELSE Fail("grayscale")
    /\ UNCHANGED <<op, image_path, input, fs, image, image_with_contours, contours, idx,
                   num_vertices, shapes, contour_count, ret_path, exit>>

\* imgproc::canny(&gray_image, &mut edges, 50.0, 150.0, 3, false)?
Canny ==
    /\ pc = "gray"
    /\ log' = Append(log, "edge")
    /\ \E ok \in BOOLEAN :
         IF ok THEN pc' = "edges" /\ UNCHANGED <<ret, failed>>
               ELSE Fail("edge")
    /\ UNCHANGED <<op, image_path, input, fs, image, image_with_contours, contours, idx,
                   num_vertices, shapes, contour_count, ret_path, exit>>

\* imgproc::find_contours_with_hierarchy(.., RETR_EXTERNAL, CHAIN_APPROX_SIMPLE, ..)?
FindContours ==
    /\ pc = "edges"
    /\ log' = Append(log, "extract")
    /\ \E ok \in BOOLEAN :
         IF ok
         THEN /\ contours' = input.contours
              /\ pc' = "extracted"
              /\ UNCHANGED <<ret, failed>>
         ELSE /\ Fail("extract")
              /\ UNCHANGED contours
    /\ UNCHANGED <<op, image_path, input, fs, image, image_with_contours, idx,
                   num_vertices, shapes, contour_count, ret_path, exit>>

\* image.copy_to(&mut image_with_contours)?
CopyTo ==
    /\ pc = "extracted"
    /\ log' = Append(log, "copy")
    /\ \E ok \in BOOLEAN :
         IF ok
         THEN /\ image_with_contours' = image
              /\ pc' = "loop"
              /\ UNCHANGED <<ret, failed>>
         ELSE /\ Fail("copy")
              /\ UNCHANGED image_with_contours
    /\ UNCHANGED <<op, image_path, input, fs, image, contours, idx,
                   num_vertices, shapes, contour_count, ret_path, exit>>

\* let area = imgproc::contour_area(&contour, false)?; if area > 100.0 { .. }
ContourArea ==
    /\ pc = "loop"
    /\ ~LoopDone
    /\ log' = Append(log, "area")
    /\ \E ok \in BOOLEAN :
         IF ok
         THEN /\ IF Retained(ContourArea2(contours[idx]))
                 THEN /\ pc' = IF op = "main" THEN "rect" ELSE "approx"
                      /\ idx' = idx
                 ELSE /\ pc' = "loop"
                      /\ idx' = idx + 1
              /\ UNCHANGED <<ret, failed>>
         ELSE /\ Fail("area")
              /\ UNCHANGED idx
    /\ UNCHANGED <<op, image_path, input, fs, image, image_with_contours, contours,
                   num_vertices, shapes, contour_count, ret_path, exit>>

\* epsilon = 0.04 * arc_length(&contour, true)?; approx_poly_dp(.., epsilon, true)?;
\* num_vertices = approx.total()
Approximate ==
    /\ pc = "approx"
    /\ \E f \in {"ok", "arc_length", "approx_poly_dp"} :
         /\ log' = IF f = "arc_length"
                   THEN Append(log, "arc_length")
                   ELSE log \o <<"arc_length", "approx_poly_dp">>
         /\ IF f = "ok"
            THEN /\ num_vertices' = ApproxPolyDP(contours[idx], ArcLength(contours[idx]))
                 /\ pc' = "rect"
                 /\ UNCHANGED <<ret, failed>>
            ELSE /\ Fail(f)
                 /\ UNCHANGED num_vertices
    /\ UNCHANGED <<op, image_path, input, fs, image, image_with_contours, contours, idx,
                   shapes, contour_count, ret_path, exit>>

\* bounding_rect(&contour)?; find_shapes pushes the Shape, the tracing
\* variants count the contour and go on to draw
BoundingRectStep ==
    /\ pc = "rect"
    /\ log' = Append(log, "bounding_rect")
    /\ \E ok \in BOOLEAN :
         IF ok
         THEN /\ LET bounding_rect == BoundingRect(contours[idx])
                 IN IF op = "find_shapes"
                    THEN /\ shapes' = Append(shapes,
                                [vertice_count |-> num_vertices,
                                 coordinates |-> [x |-> bounding_rect.x,
                                                  y |-> bounding_rect.y],
                                 contour |-> contours[idx]])
                         /\ idx' = idx + 1
                         /\ pc' = "loop"
                         /\ UNCHANGED contour_count
                    ELSE /\ contour_count' = contour_count + 1
                         /\ pc' = "draw"
                         /\ UNCHANGED <<shapes, idx>>
              /\ UNCHANGED <<ret, failed>>
         ELSE /\ Fail("bounding_rect")
              /\ UNCHANGED <<shapes, idx, contour_count>>
    /\ UNCHANGED <<op, image_path, input, fs, image, image_with_contours, contours,
                   num_vertices, ret_path, exit>>

\* imgproc::draw_contours(&mut image_with_contours, &contours, -1, color, 2, ..)?
Draw ==
    /\ pc = "draw"
    /\ log' = Append(log, "draw")
    /\ \E ok \in BOOLEAN :
         IF ok
         THEN /\ image_with_contours' =
                    DrawContours(image_with_contours, contours, AllContours,
                                 IF op = "main" THEN Blue ELSE Green)
              /\ idx' = idx + 1
              /\ pc' = "loop"
              /\ UNCHANGED <<ret, failed>>
         ELSE /\ Fail("draw")
              /\ UNCHANGED <<image_with_contours, idx>>
    /\ UNCHANGED <<op, image_path, input, fs, image, contours,
                   num_vertices, shapes, contour_count, ret_path, exit>>

\* images.rs find_shapes: Ok(shapes)
ReturnShapes ==
    /\ pc = "loop"
    /\ LoopDone
    /\ ~Writes(op)
    /\ pc' = "returned"
    /\ ret' = "Ok"
    /\ UNCHANGED <<op, image_path, input, fs, image, image_with_contours, contours, idx,
                   num_vertices, shapes, contour_count, log, ret_path, failed, exit>>

\* contour_image_path.set_extension("shapes.png"); imwrite(..)?; Ok(contour_image_path)
Imwrite ==
    /\ pc = "loop"
    /\ LoopDone
    /\ Writes(op)
    /\ log' = Append(log, "persist")
    /\ LET contour_image_path == SetExtension(image_path, ShapesPng)
       IN \E ok \in BOOLEAN :
            IF ok
            THEN /\ fs' = {e \in fs : e.path # contour_image_path}
                            \cup {[path |-> contour_image_path,
                                   data |-> image_with_contours]}
                 /\ pc' = "returned"
                 /\ ret' = "Ok"
                 /\ ret_path' = contour_image_path
                 /\ UNCHANGED failed
            ELSE /\ Fail("persist")
                 /\ UNCHANGED <<fs, ret_path>>
    /\ UNCHANGED <<op, image_path, input, image, image_with_contours, contours, idx,
                   num_vertices, shapes, contour_count, exit>>

\* main.rs: `let _ = find_shapes(&o);` ... `Ok(())`
MainExit ==
    /\ op = "main"
    /\ pc = "returned"
    /\ pc' = "exited"
    /\ exit' = "Ok"
    /\ UNCHANGED <<op, image_path, input, fs, image, image_with_contours, contours, idx,
                   num_vertices, shapes, contour_count, log, ret, ret_path, failed>>

Next ==
    \/ Imread
    \/ CvtColor
    \/ Canny
    \/ FindContours
    \/ CopyTo
    \/ ContourArea
    \/ Approximate
    \/ BoundingRectStep
    \/ Draw
    \/ ReturnShapes
    \/ Imwrite
    \/ MainExit

Spec == Init /\ [][Next]_vars

SpecPath == InitPath /\ [][Next]_vars

\* ------------------------------------------------------------------ claims
InitialFs == {[path |-> image_path, data |-> input.pixels]}
OutputWritten == fs # InitialFs
AreaOver100(c) == ContourArea2(c) > 200
RetainedContours(cs) == SelectSeq(cs, AreaOver100)
ContoursOf(ss) == [i \in 1..Len(ss) |-> ss[i].contour]
Occurrences(q, x) == Cardinality({i \in 1..Len(q) : q[i] = x})
Dotted(ext) == <<".">> \o ext
EndsWith(q, suffix) ==
    /\ Len(q) >= Len(suffix)
    /\ SubSeq(q, Len(q) - Len(suffix) + 1, Len(q)) = suffix
Finished == IF op = "main" THEN pc = "exited" ELSE pc = "returned"
Surfaced == IF op = "main" THEN exit ELSE ret

\* C1: in find_shapes and trace_shapes a contour is retained iff its area is
\* strictly greater than 100: after the loop has passed idx - 1 contours, the
\* shapes pushed (find_shapes) and the contours counted (trace_shapes) are
\* exactly those of the passed contours with area > 100, in order; area 100
\* is excluded, area 101 included.
C1_StrictAreaFilter ==
    (pc = "loop" \/ ret = "Ok") =>
        LET kept == RetainedContours(SubSeq(contours, 1, idx - 1))
        IN /\ op = "find_shapes" => ContoursOf(shapes) = kept
           /\ op = "trace_shapes" => contour_count = Len(kept)

C1_Witness ==
    /\ op = "find_shapes" /\ ret = "Ok"
    /\ contours = <<Sq10, Thin101>>
    /\ ContourArea2(Sq10) = 200 /\ ContourArea2(Thin101) = 202
    /\ ContoursOf(shapes) = <<Thin101>>

\* C2: in trace_shapes the output file is written only after every contour
\* has been filtered and every retained one drawn, as the last step; when any
\* earlier stage fails no file is written.
C2_WriteOnlyAfterRender ==
    op = "trace_shapes" =>
        /\ OutputWritten =>
             /\ ret = "Ok" /\ failed = "none"
             /\ idx = Len(contours) + 1
             /\ log[Len(log)] = "persist"
             /\ Occurrences(log, "persist") = 1
             /\ Occurrences(log, "area") = Len(contours)
             /\ Occurrences(log, "draw") = Len(RetainedContours(contours))
        /\ failed # "none" => ~OutputWritten

C2_Witness ==
    /\ op = "trace_shapes"
    /\ OutputWritten
    /\ contours = <<Sq20, Tri>>
    /\ Occurrences(log, "draw") = 2

\* C3: the image written by trace_shapes equals the input except that every
\* retained contour (area > 100) is green: a pixel lying only on a
\* non-retained contour keeps its input value, also when another contour is
\* retained.
C3_OnlyRetainedDrawn ==
    (op = "trace_shapes" /\ ret = "Ok") =>
        \A e \in fs : e.path = ret_path =>
            /\ e.data[1] = input.pixels[1]
            /\ \A k \in 1..Len(contours) :
                 e.data[k + 1] = IF AreaOver100(contours[k]) THEN Green
                                 ELSE input.pixels[k + 1]

\* C4: for an image with no contour of area > 100, find_shapes returns an
\* empty list and trace_shapes writes an image equal to the input, no draw
\* step having run.
C4_NothingRetained ==
    (ret = "Ok" /\ RetainedContours(input.contours) = <<>>) =>
        /\ op = "find_shapes" => shapes = <<>>
        /\ op = "trace_shapes" =>
             /\ Occurrences(log, "draw") = 0
             /\ \E e \in fs : e.path = ret_path /\ e.data = input.pixels

C4_Witness ==
    /\ op = "trace_shapes" /\ ret = "Ok"
    /\ contours = <<Sq5, Sq10>>
    /\ [path |-> ret_path, data |-> input.pixels] \in fs

\* C5: the path returned by trace_shapes is the input path with only its final
\* extension replaced by "shapes.png", in the same directory: everything
\* before the last dot of the file name is kept, "map.png" gives
\* "map.shapes.png" and "scan.v2.jpg" gives "scan.v2.shapes.png".
C5_OutputPath ==
    (op = "trace_shapes" /\ ret = "Ok") =>
        LET n == image_path.name
            o == ret_path.name
            kept == IF Dots(n) = {} THEN Len(n) ELSE Max(Dots(n)) - 1
        IN /\ ret_path.dir = image_path.dir
           /\ \E e \in fs : e.path = ret_path
           /\ SubSeq(o, 1, kept) = SubSeq(n, 1, kept)
           /\ EndsWith(o, Dotted(ShapesPng))
           /\ kept >= 1 => o = SubSeq(n, 1, kept) \o Dotted(ShapesPng)
           /\ n = MapPng => o = <<"m", "a", "p">> \o Dotted(ShapesPng)
           /\ n = ScanV2Jpg => o = <<"s", "c", "a", "n", ".", "v", "2">> \o Dotted(ShapesPng)

C5_Witness ==
    /\ op = "trace_shapes" /\ ret = "Ok"
    /\ image_path.name = ScanV2Jpg
    /\ ret_path.name = <<"s", "c", "a", "n", ".", "v", "2">> \o Dotted(ShapesPng)

\* C6: for every Shape returned by find_shapes the bounding box x, y, width,
\* height of the minimal rectangle around its source contour are all on the
\* Shape record.
C6_BoundingBoxOnShape ==
    op = "find_shapes" =>
        \A i \in 1..Len(shapes) :
            LET b == BoundingRect(shapes[i].contour)
                r == shapes[i].coordinates
            IN /\ {"x", "y", "width", "height"} \subseteq DOMAIN r
               /\ r.x = b.x /\ r.y = b.y
               /\ r.width = b.width /\ r.height = b.height

\* C7: every Shape returned by find_shapes has at least 3 vertices.
C7_AtLeastThreeVertices ==
    op = "find_shapes" => \A i \in 1..Len(shapes) : shapes[i].vertice_count >= 3

\* C8 (as stated): analysis, by the library find_shapes or by the `shapes`
\* subcommand, never changes the files on disk.
C8_AnalyzeNoWrites ==
    op \in {"find_shapes", "main"} => fs = InitialFs

\* C8 (amended): the library find_shapes never changes the files on disk,
\* whether it succeeds or fails; the find_shapes run by the `shapes`
\* subcommand writes the .shapes.png file whenever it succeeds.
C8_LibraryFindShapesNoWrites ==
    /\ op = "find_shapes" => fs = InitialFs
    /\ (op = "main" /\ ret = "Ok") =>
         /\ EndsWith(ret_path.name, Dotted(ShapesPng))
         /\ [path |-> ret_path, data |-> image_with_contours] \in fs
         /\ OutputWritten

C8_Witness ==
    /\ op = "find_shapes" /\ ret = "Ok"
    /\ Len(shapes) = 2
    /\ fs = InitialFs

\* C9: stages run in the order load, grayscale, edge, extract, filter and
\* approximate, then render and persist; after a failing stage nothing more
\* runs, and the operation ends by surfacing the failure to its caller.
StageRank(stage) ==
    CASE stage = "load" -> 1
      [] stage = "grayscale" -> 2
      [] stage = "edge" -> 3
      [] stage = "extract" -> 4
      [] stage = "copy" -> 5
      [] stage = "persist" -> 7
      [] OTHER -> 6

C9_FailureSurfaced ==
    /\ \A i, j \in 1..Len(log) : i < j => StageRank(log[i]) <= StageRank(log[j])
    /\ \A i, j \in 1..Len(log) : (i < j /\ StageRank(log[i]) # 6) => log[i] # log[j]
    /\ failed # "none" => log[Len(log)] = failed
    /\ (Finished /\ failed # "none") => Surfaced = "Err"

\* C10: trace_shapes never overwrites its input: for an input path with a file
\* name the returned path differs from it and the input file stays as it was.
C10_InputNotOverwritten ==
    (op = "trace_shapes" /\ HasFileName(image_path)) =>
        /\ [path |-> image_path, data |-> input.pixels] \in fs
        /\ ret = "Ok" => (ret_path # image_path /\ Cardinality(fs) = 2)

C10_Witness ==
    /\ op = "trace_shapes" /\ ret = "Ok"
    /\ image_path.name = <<"a">> \o Dotted(ShapesPng)
    /\ Occurrences(log, "draw") = 1

====
